---- MODULE Spec2Model ----
(***************************************************************************)
(* A model of the IMAP extension layer of the repository:                  *)
(*   - the GETQUOTA / GETQUOTAROOT response collectors                     *)
(*     (async-imap/src/extensions/quota.rs),                               *)
(*   - the COMPRESS DEFLATE handshake and the DeflateStream wrapper        *)
(*     (async-imap/src/extensions/compress.rs).                            *)
(***************************************************************************)
EXTENDS Integers, Sequences, FiniteSets, TLC

(***************************************************************************)
(* Bounds of the model.                                                    *)
(***************************************************************************)
MaxFrames == 4
MaxCmds == 2
MaxLen == 3
MaxRead == 2
MaxSeq == 2
MaxTasks == 2

\* let batch_size = 10
batch_size == 10

VARIABLES
    stream,        \* items the frame source has yielded so far (or holds ready), in order
    pos,           \* how many items of stream have been consumed
    open,          \* the frame source may still yield items beyond stream
    request_ids,   \* Connection.request_ids: the next correlation tag
    pc,            \* "idle" | "loop" (in the while-let loop) | "send" (in handle_unilateral)
    fn,            \* the collection being run: "none" | "get_quota" | "get_quota_root"
    command_tag,   \* the tag the running collection was given
    callStart,     \* pos when the running collection began
    quota,         \* parse_get_quota: let mut quota
    roots,         \* parse_get_quota_root: let mut roots
    quotas,        \* parse_get_quota_root: let mut quotas
    pending,       \* the frame handle_unilateral is publishing
    unsolicited,   \* the unsolicited channel: frames published and not yet received
    received,      \* frames the application took from the channel, in order
    calls,         \* the collections that returned, in order, with what they returned
    session,       \* "Live" (the caller holds a Session) | "InCompress" (moved into
                   \* compress) | "Dropped" (compress failed: no Session is left)
    stack,         \* the layers of conn.stream, outermost first
    handles,       \* who owns the raw transport T
    wireOut,       \* what was written to the raw transport, in order
    readVia,       \* for each consumed item, the coding it was read through
    ds,            \* a DeflateStream on its own: "none" | "live" | "finishing" (its
                   \* encoder is finished) | "closed" (shut down) | "unwrapped"
    topen,         \* its inner transport has not been shut down
    plain,         \* the plaintext its owner writes through it
    written,       \* how many bytes of plain poll_write has accepted
    nwrites,       \* how many poll_write calls accepted them
    flushed,       \* how many accepted bytes the last completed poll_flush covered
    enc,           \* DeflateEncoder: plaintext accepted and not yet emitted
    tbuf,          \* the inner transport: units written to it and not yet sent
    wire,          \* units sent and not yet read by the peer
    rbuf,          \* the peer's BufReader: units read from the transport
    dec,           \* the peer's DeflateDecoder
    out,           \* the plaintext the peer's poll_read has returned, in order
    app,           \* download_attachments: where the run is ("none": not run)
    all_sequences, \* let mut all_sequences
    sequences_vec, \* let sequences_vec
    seq_i,         \* how many seqs of sequences_vec the batch loop has done
    tasks,         \* let mut tasks: how many it holds
    failed,        \* the session operations that returned an error so far
    outcome,       \* what download_attachments returned: "none" | "Ok" | "Err"
    logged_out     \* logout has completed

collVars == <<pc, fn, command_tag, callStart, quota, roots, quotas, pending>>
sessVars == <<session, stack, handles>>
imapVars == <<stream, pos, open, request_ids, collVars, unsolicited, received, calls,
              session, stack, wireOut, readVia>>
defVars == <<ds, topen, plain, written, nwrites, flushed, enc, tbuf, wire, rbuf, dec, out>>
appVars == <<app, all_sequences, sequences_vec, seq_i, tasks, failed, outcome, logged_out>>
vars == <<stream, pos, open, request_ids, pc, fn, command_tag, callStart,
          quota, roots, quotas, pending, unsolicited, received, calls,
          session, stack, handles, wireOut, readVia,
          ds, topen, plain, written, nwrites, flushed, enc, tbuf, wire, rbuf, dec, out,
          app, all_sequences, sequences_vec, seq_i, tasks, failed, outcome, logged_out>>

(***************************************************************************)
(* Frames.  Every item of the frame source is a record of the same shape;  *)
(* kind "IoErr" is the Err(_) item of Stream<Item = io::Result<..>>.       *)
(***************************************************************************)
Frame(kind, tag, status, name, usage, limit) ==
    [kind |-> kind, tag |-> tag, status |-> status,
     name |-> name, usage |-> usage, limit |-> limit]

QuotaFrames ==
    {Frame("Quota", -1, "-", "STORAGE", 10, 100), Frame("Quota", -1, "-", "MESSAGE", 3, 50)}
QuotaRootFrames == {Frame("QuotaRoot", -1, "-", "INBOX", 0, 0)}
OtherFrames == {Frame("Other", -1, "-", "", 0, 0)}
DoneFrame(tag, status) == Frame("Done", tag, status, "", 0, 0)
IoErr == Frame("IoErr", -1, "-", "", 0, 0)
Eof == Frame("Eof", -1, "-", "", 0, 0)
None == Frame("None", -1, "-", "", 0, 0)

\* What the server may send while the command tagged t is outstanding: the
\* completion of t, a completion carrying another tag, and untagged frames.
Items(t) ==
    QuotaFrames \cup QuotaRootFrames \cup OtherFrames
        \cup {DoneFrame(t, "Ok"), DoneFrame(t + 1, "Ok"), IoErr}

\* What the server may send while the COMPRESS DEFLATE command tagged t is
\* outstanding: its completion, with success or not, and other frames.
HandshakeItems(t) ==
    OtherFrames
        \cup {DoneFrame(t, "Ok"), DoneFrame(t, "No"), DoneFrame(t + 1, "Ok"), IoErr}

\* The outcomes of polling the frame source once.
Poll ==
    IF pos < Len(stream) THEN {stream[pos + 1]}
    ELSE IF open /\ Len(stream) < MaxFrames
         THEN (IF fn = "compress" THEN HandshakeItems(command_tag) ELSE Items(command_tag))
                 \cup {Eof}
    ELSE {Eof}

\* How bytes travel through a stack of stream layers.
Coding(layers) ==
    IF \E i \in 1..Len(layers) : layers[i] = "DeflateStream" THEN "deflate" ELSE "plain"

\* The frame source after it yielded item, read through the session's stream.
Polled(item) ==
    IF item.kind = "Eof"
    THEN /\ open' = FALSE
         /\ UNCHANGED <<stream, pos, readVia>>
    ELSE /\ stream' = IF pos < Len(stream) THEN stream ELSE Append(stream, item)
         /\ pos' = pos + 1
         /\ readVia' = Append(readVia, Coding(stack))
         /\ UNCHANGED open

(***************************************************************************)
(* The tagged-response collectors of quota.rs.                             *)
(***************************************************************************)

IsDoneOf(item, tag) == item.kind = "Done" /\ item.tag = tag

\* parse::filter: FALSE exactly on the completion frame of command_tag.
filter(res, tag) == ~(res.kind = "Done" /\ res.tag = tag)

\* A bug variant of take_while_next: any tagged completion ends the loop.
take_while_next_any_done(item, tag) ==
    IF item.kind = "Eof" THEN None
    ELSE IF item.kind # "Done" THEN item ELSE None

\* A bug variant of take_while_next: a failed read ends the loop like the
\* completion frame does.
take_while_next_ok_only(item, tag) ==
    IF item.kind \in {"Eof", "IoErr"} THEN None
    ELSE IF filter(item, tag) THEN item ELSE None

\* A bug variant of take_while_next: the completion frame is yielded too.
take_while_next_unfiltered(item, tag) ==
    IF item.kind = "Eof" THEN None ELSE item

\* stream.take_while(|res| filter(res, &command_tag)).next().await on the
\* polled item: the end of the source and the first item filter rejects
\* (which is consumed and dropped) both give None.
take_while_next(item, tag) ==
    IF item.kind = "Eof" THEN None
    ELSE IF filter(item, tag) THEN item ELSE None

\* Quota::from(imap_proto::Quota): the fields copied out of the frame.
QuotaFrom(resp) == [name |-> resp.name, usage |-> resp.usage, limit |-> resp.limit]
\* QuotaRoot::from(imap_proto::QuotaRoot).
QuotaRootFrom(resp) == [mailbox |-> resp.name]

\* Why the loop was left, for the record of the call.
Cause(item) ==
    CASE item.kind = "Eof" -> "eof"
      [] item.kind = "IoErr" -> "error"
      [] OTHER -> "done"

Return(status, error, q, rs, qs, cause) ==
    /\ calls' = Append(calls,
          [fn |-> fn, tag |-> command_tag, start |-> callStart, stop |-> pos',
           status |-> status, error |-> error, quota |-> q, roots |-> rs,
           quotas |-> qs, cause |-> cause])
    /\ pc' = "idle"
    /\ fn' = "none"

\* A bug variant of QuotaResult: a missing Quota is not reported.
QuotaResultLenient(q) ==
    IF q # <<>> THEN [status |-> "Ok", error |-> "", quota |-> q]
    ELSE [status |-> "Ok", error |-> "", quota |-> <<QuotaFrom(None)>>]

\* parse_get_quota, after the loop: match quota { Some(q) => Ok(q), None => Err(..) }.
QuotaResult(q) ==
    IF q # <<>> THEN [status |-> "Ok", error |-> "", quota |-> q]
    ELSE [status |-> "Err", error |-> "ExpectedResponseNotFound", quota |-> <<>>]

\* A bug variant of QuotaRootResult: an empty result is an error.
QuotaRootResultStrict(rs, qs) ==
    IF rs = <<>> /\ qs = <<>>
    THEN [status |-> "Err", error |-> "ExpectedResponseNotFound", roots |-> rs, quotas |-> qs]
    ELSE [status |-> "Ok", error |-> "", roots |-> rs, quotas |-> qs]

\* parse_get_quota_root, after the loop: Ok((roots, quotas)).
QuotaRootResult(rs, qs) == [status |-> "Ok", error |-> "", roots |-> rs, quotas |-> qs]

\* A bug variant of keep_last: the first Quota is kept.
keep_first(old, q) == IF old = <<>> THEN <<q>> ELSE old

\* quota = Some(q.clone().into()): the Quota replaces any earlier one.
keep_last(old, q) == <<q>>

\* A bug variant of push: the value is put in front.
push_front(v, x) == <<x>> \o v

\* Vec::push.
push(v, x) == Append(v, x)

\* The next correlation tag (IdGenerator).
NextTag == request_ids

\* A bug variant of Exclusive: the stream is reachable while it is drained.
ExclusiveNever == TRUE

\* stream: &mut T (quota.rs) and self (compress): the frame stream can be
\* handed to a collection only when no other collection holds it.
Exclusive == pc = "idle"

\* What run_command writes: the command line, through the session's stream.
CommandLine(tag, text) ==
    [by |-> "session", tag |-> tag, text |-> text, coding |-> Coding(stack)]

\* A caller enters a collection for a freshly tagged command it has sent.
Enter(f) ==
    /\ Exclusive
    /\ session = "Live"
    /\ Len(calls) < MaxCmds
    /\ wireOut' = Append(wireOut, CommandLine(NextTag, f))
    /\ fn' = f
    /\ command_tag' = NextTag
    /\ request_ids' = request_ids + 1
    /\ callStart' = pos
    /\ quota' = <<>>
    /\ roots' = <<>>
    /\ quotas' = <<>>
    /\ pc' = "loop"
    /\ UNCHANGED <<stream, pos, open, pending, unsolicited, received, calls,
                   readVia, sessVars, defVars, appVars>>

get_quota == Enter("get_quota")

get_quota_root == Enter("get_quota_root")

\* One iteration of the while-let loop of parse_get_quota, or its exit.
parse_get_quota ==
    /\ pc = "loop"
    /\ fn = "get_quota"
    /\ \E item \in Poll :
         LET resp == take_while_next(item, command_tag) IN
         /\ Polled(item)
         /\ CASE resp.kind = "None" ->
                   LET r == QuotaResult(quota) IN
                   /\ Return(r.status, r.error, r.quota, <<>>, <<>>, Cause(item))
                   /\ UNCHANGED <<quota, pending>>
              [] resp.kind = "IoErr" ->
                   /\ Return("Err", "Io", <<>>, <<>>, <<>>, Cause(item))
                   /\ UNCHANGED <<quota, pending>>
              [] resp.kind = "Quota" ->
                   /\ quota' = keep_last(quota, QuotaFrom(resp))
                   /\ UNCHANGED <<pc, fn, pending, calls>>
              [] OTHER ->
                   /\ pending' = resp
                   /\ pc' = "send"
                   /\ UNCHANGED <<fn, quota, calls>>
    /\ UNCHANGED <<request_ids, command_tag, callStart, roots, quotas,
                   unsolicited, received, wireOut, sessVars, defVars, appVars>>

\* One iteration of the while-let loop of parse_get_quota_root, or its exit.
parse_get_quota_root ==
    /\ pc = "loop"
    /\ fn = "get_quota_root"
    /\ \E item \in Poll :
         LET resp == take_while_next(item, command_tag) IN
         /\ Polled(item)
         /\ CASE resp.kind = "None" ->
                   LET r == QuotaRootResult(roots, quotas) IN
                   /\ Return(r.status, r.error, <<>>, r.roots, r.quotas, Cause(item))
                   /\ UNCHANGED <<roots, quotas, pending>>
              [] resp.kind = "IoErr" ->
                   /\ Return("Err", "Io", <<>>, <<>>, <<>>, Cause(item))
                   /\ UNCHANGED <<roots, quotas, pending>>
              [] resp.kind = "QuotaRoot" ->
                   /\ roots' = push(roots, QuotaRootFrom(resp))
                   /\ UNCHANGED <<pc, fn, quotas, pending, calls>>
              [] resp.kind = "Quota" ->
                   /\ quotas' = push(quotas, QuotaFrom(resp))
                   /\ UNCHANGED <<pc, fn, roots, pending, calls>>
              [] OTHER ->
                   /\ pending' = resp
                   /\ pc' = "send"
                   /\ UNCHANGED <<fn, roots, quotas, calls>>
    /\ UNCHANGED <<request_ids, command_tag, callStart, quota, unsolicited, received,
                   wireOut, sessVars, defVars, appVars>>

\* A variant of ChannelReady: a channel of capacity two whose send waits for room.
ChannelReadyBounded(chan) == Len(chan) < 2

\* Whether a send on the unsolicited channel completes now: publishing is
\* non-blocking (an unbounded channel).
ChannelReady(chan) == TRUE

\* parse::handle_unilateral: the frame is sent on the unsolicited channel.
handle_unilateral(chan, resp, idx) == Append(chan, [idx |-> idx, frame |-> resp])

\* A bug variant of await_handle_unilateral: the publish is spawned, not
\* awaited, so it may land anywhere among the frames already in the channel.
await_handle_unilateral_detached ==
    /\ pc = "send"
    /\ ChannelReady(unsolicited)
    /\ \E k \in 0..Len(unsolicited) :
         unsolicited' = SubSeq(unsolicited, 1, k)
                          \o <<[idx |-> pos, frame |-> pending]>>
                          \o SubSeq(unsolicited, k + 1, Len(unsolicited))
    /\ pending' = None
    /\ pc' = "loop"
    /\ UNCHANGED <<stream, pos, open, request_ids, fn, command_tag, callStart,
                   quota, roots, quotas, received, calls, wireOut, readVia, sessVars, defVars, appVars>>

\* handle_unilateral(resp, unsolicited.clone()).await: the loop resumes once
\* the frame has been handed to the channel.
await_handle_unilateral ==
    /\ pc = "send"
    /\ ChannelReady(unsolicited)
    /\ unsolicited' = handle_unilateral(unsolicited, pending, pos)
    /\ pending' = None
    /\ pc' = "loop"
    /\ UNCHANGED <<stream, pos, open, request_ids, fn, command_tag, callStart,
                   quota, roots, quotas, received, calls, wireOut, readVia, sessVars, defVars, appVars>>

\* The application takes the oldest frame from the unsolicited channel.
Receive ==
    /\ unsolicited # <<>>
    /\ received' = Append(received, Head(unsolicited))
    /\ unsolicited' = Tail(unsolicited)
    /\ UNCHANGED <<stream, pos, open, request_ids, collVars, calls,
                   wireOut, readVia, sessVars, defVars, appVars>>

(***************************************************************************)
(* Session::compress (compress.rs).                                        *)
(***************************************************************************)

\* What the caller's f does with the DeflateStream it is given: the layers it
\* puts around it, and the accessor it calls on it before returning.
WrapFns ==
    {[layers |-> <<>>, touch |-> "none"],
     [layers |-> <<"BufWriter">>, touch |-> "none"],
     [layers |-> <<>>, touch |-> "get_ref"],
     [layers |-> <<"BufWriter">>, touch |-> "get_mut"]}

\* run_command_and_check_ok on one polled item: the command's completion
\* decides, the end of the source and a failed read are errors, and any other
\* frame is unilateral.
check_done(item, tag) ==
    CASE item.kind = "Eof" -> [status |-> "Err", error |-> "ConnectionLost"]
      [] item.kind = "IoErr" -> [status |-> "Err", error |-> "Io"]
      [] IsDoneOf(item, tag) /\ item.status = "Ok" -> [status |-> "Ok", error |-> ""]
      [] IsDoneOf(item, tag) -> [status |-> "Err", error |-> item.status]
      [] OTHER -> [status |-> "Unilateral", error |-> ""]

\* A bug variant of Propagates: the handshake's result is discarded.
PropagatesNever(r) == FALSE

\* run_command_and_check_ok(..).await?: an Err leaves compress at once.
Propagates(r) == r.status = "Err"

\* A bug variant of DeflateStream_new: the transport stays reachable from
\* where it was taken.
DeflateStream_new_shared(h) == h \cup {"deflate"}

\* conn.into_inner() followed by DeflateStream::new(stream): the transport is
\* moved out of the connection and into the wrapper.
DeflateStream_new(h) == {"deflate"}

\* A bug variant of NewStack: the connection is rebuilt around the bare transport.
NewStackBare(f) == <<"ImapStream">> \o f.layers \o <<"T">>

\* ImapStream::new(f(deflate_stream)): the layers of the rebuilt connection.
NewStack(f) == <<"ImapStream">> \o f.layers \o <<"DeflateStream", "T">>

\* deflate_stream.get_mut() used by f to write to the inner transport.
get_mut(f) ==
    IF f.touch = "get_mut"
    THEN <<[by |-> "f", tag |-> -1, text |-> "get_mut", coding |-> "plain"]>>
    ELSE <<>>

\* A bug variant of IdGenerator_new: the counter of the old connection is
\* carried over.
IdGenerator_carried == request_ids

\* A bug variant of moved_channel: the new session gets a channel of its own.
new_channel(chan) == <<>>

\* unsolicited_responses_tx and unsolicited_responses are moved out of the
\* old session and into the new one: the channel and what it holds stay.
moved_channel(chan) == chan

\* IdGenerator::new(): the first tag of a fresh generator.
IdGenerator_new == 0

\* compress is called: the session is moved in and the command is sent.
compress_begin ==
    /\ Exclusive
    /\ session = "Live"
    /\ Coding(stack) = "plain"
    /\ Len(calls) < MaxCmds
    /\ session' = "InCompress"
    /\ wireOut' = Append(wireOut, CommandLine(NextTag, "compress"))
    /\ fn' = "compress"
    /\ command_tag' = NextTag
    /\ request_ids' = request_ids + 1
    /\ callStart' = pos
    /\ pc' = "loop"
    /\ UNCHANGED <<stream, pos, open, quota, roots, quotas, pending, unsolicited,
                   received, calls, readVia, stack, handles, defVars, appVars>>

\* compress, from the wait for the command's completion to its return.
compress ==
    /\ pc = "loop"
    /\ fn = "compress"
    /\ \E item \in Poll :
         LET r == check_done(item, command_tag) IN
         /\ Polled(item)
         /\ CASE r.status = "Unilateral" ->
                   /\ pending' = item
                   /\ pc' = "send"
                   /\ UNCHANGED <<fn, calls, request_ids, session, stack, handles, wireOut,
                                  unsolicited>>
              [] r.status # "Unilateral" /\ Propagates(r) ->
                   /\ Return("Err", r.error, <<>>, <<>>, <<>>, Cause(item))
                   /\ session' = "Dropped"
                   /\ UNCHANGED <<pending, request_ids, stack, handles, wireOut, unsolicited>>
              [] OTHER ->
                   \E f \in WrapFns :
                     /\ handles' = DeflateStream_new(handles)
                     /\ wireOut' = wireOut \o get_mut(f)
                     /\ stack' = NewStack(f)
                     /\ request_ids' = IdGenerator_new
                     /\ unsolicited' = moved_channel(unsolicited)
                     /\ session' = "Live"
                     /\ Return(r.status, r.error, <<>>, <<>>, <<>>, Cause(item))
                     /\ UNCHANGED pending
    /\ UNCHANGED <<command_tag, callStart, quota, roots, quotas, received, defVars, appVars>>

(***************************************************************************)
(* DeflateStream (compress.rs): one direction of a connection whose two    *)
(* ends are DeflateStreams.  The owner of one writes plain through it; the *)
(* peer reads through the other.  The compressed stream is a sequence of   *)
(* units: a stored block is a LEN unit and that many LIT units, a run      *)
(* block is a RUN unit and one LIT unit, and a flush ends in a SYNC unit.   *)
(***************************************************************************)
Bytes == {0, 1}
Unit(t, v) == [t |-> t, v |-> v]
DecIdle == [mode |-> "hdr", left |-> 0, byte |-> 0]

BoundedSeq(S, n) == UNION {[1..k -> S] : k \in 0..n}

IsPrefix(a, b) == Len(a) <= Len(b) /\ a = SubSeq(b, 1, Len(a))

\* The compressor on the bytes c: nothing for no bytes, a run block for
\* repeated bytes, a stored block otherwise.
EncodeBlock(c) ==
    IF c = <<>> THEN <<>>
    ELSE IF Len(c) >= 2 /\ \A i \in 1..Len(c) : c[i] = c[1]
         THEN <<Unit("RUN", Len(c)), Unit("LIT", c[1])>>
         ELSE <<Unit("LEN", Len(c))>> \o [i \in 1..Len(c) |-> Unit("LIT", c[i])]

\* What a sync flush appends.
SyncMark == <<Unit("SYNC", 0)>>

\* What finishing the compressed stream appends: the final block.
FinalBlock == <<Unit("FIN", 0)>>

\* The decompressor on one unit of input.
DecodeUnit(d, u) ==
    CASE d.mode = "hdr" /\ u.t = "LEN" -> [mode |-> "lit", left |-> u.v, byte |-> 0]
      [] d.mode = "hdr" /\ u.t = "RUN" -> [mode |-> "runhdr", left |-> u.v, byte |-> 0]
      [] d.mode = "hdr" /\ u.t = "SYNC" -> d
      [] d.mode = "hdr" /\ u.t = "FIN" -> [mode |-> "end", left |-> 0, byte |-> 0]
      [] d.mode = "lit" /\ u.t = "LIT" ->
           IF d.left = 1 THEN DecIdle ELSE [d EXCEPT !.left = d.left - 1]
      [] d.mode = "runhdr" /\ u.t = "LIT" -> [mode |-> "run", left |-> d.left, byte |-> u.v]
      [] OTHER -> [mode |-> "err", left |-> 0, byte |-> 0]

\* The decompressor run on input until cap bytes are produced, the input is
\* used up or the data is malformed: its state, the input left, the output.
RECURSIVE Decode(_, _, _)
Decode(d, input, cap) ==
    IF cap = 0 \/ d.mode \in {"err", "end"} THEN [dec |-> d, rest |-> input, out |-> <<>>]
    ELSE IF d.mode = "run"
    THEN LET d2 == IF d.left = 1 THEN DecIdle ELSE [d EXCEPT !.left = d.left - 1]
             r == Decode(d2, input, cap - 1)
         IN [r EXCEPT !.out = <<d.byte>> \o r.out]
    ELSE IF input = <<>> THEN [dec |-> d, rest |-> input, out |-> <<>>]
    ELSE LET u == Head(input)
             d2 == DecodeUnit(d, u)
         IN IF d.mode = "lit" /\ d2.mode # "err"
            THEN LET r == Decode(d2, Tail(input), cap - 1)
                 IN [r EXCEPT !.out = <<u.v>> \o r.out]
            ELSE Decode(d2, Tail(input), cap)

\* download_attachments is not run.
NoApp ==
    /\ app = "none"
    /\ all_sequences = {}
    /\ sequences_vec = <<>>
    /\ seq_i = 0
    /\ tasks = 0
    /\ failed = {}
    /\ outcome = "none"
    /\ logged_out = FALSE

NoDeflateStream ==
    /\ ds = "none"
    /\ topen = TRUE
    /\ plain = <<>>
    /\ written = 0
    /\ nwrites = 0
    /\ flushed = -1
    /\ enc = <<>>
    /\ tbuf = <<>>
    /\ wire = <<>>
    /\ rbuf = <<>>
    /\ dec = DecIdle
    /\ out = <<>>

\* DeflateStream::new(stream): the transport moves into the wrapper.
new ==
    /\ ds = "none"
    /\ ds' = "live"
    /\ handles' = DeflateStream_new(handles)
    /\ UNCHANGED <<imapVars, appVars, topen, plain, written, nwrites, flushed, enc, tbuf, wire,
                   rbuf, dec, out>>

\* A bug variant of poll_write_to: the bytes go to the transport as they are.
poll_write_past_encoder(e, tb, chunk, j) ==
    [enc |-> e, tbuf |-> tb \o [i \in 1..Len(chunk) |-> Unit("LIT", chunk[i])]]

\* inner.get_pin_mut().poll_write(cx, buf): the DeflateEncoder accepts the
\* chunk and writes a block for the first j bytes it holds to the transport.
poll_write_to(e, tb, chunk, j) ==
    LET held == e \o chunk IN
    [enc |-> SubSeq(held, j + 1, Len(held)),
     tbuf |-> tb \o EncodeBlock(SubSeq(held, 1, j))]

\* Write for DeflateStream: poll_write of the next n bytes of plain.
poll_write ==
    /\ ds = "live"
    /\ \E n \in 1..(Len(plain) - written) :
         LET chunk == SubSeq(plain, written + 1, written + n) IN
         \E j \in 0..(Len(enc) + n) :
           LET w == poll_write_to(enc, tbuf, chunk, j) IN
           /\ enc' = w.enc
           /\ tbuf' = w.tbuf
           /\ written' = written + n
           /\ nwrites' = nwrites + 1
    /\ UNCHANGED <<imapVars, appVars, handles, ds, topen, plain, flushed, wire, rbuf, dec, out>>

\* A bug variant of poll_flush_to: only the transport is flushed.
poll_flush_transport_only(e, tb, w) == [enc |-> e, tbuf |-> <<>>, wire |-> w \o tb]

\* inner.poll_flush(cx), which reaches the DeflateEncoder: it emits what it
\* holds and a sync mark, writes them to the transport and flushes the
\* transport.
poll_flush_to(e, tb, w) ==
    [enc |-> <<>>, tbuf |-> <<>>, wire |-> w \o tb \o EncodeBlock(e) \o SyncMark]

\* Write for DeflateStream: poll_flush.
poll_flush ==
    /\ ds = "live"
    /\ flushed < written
    /\ LET r == poll_flush_to(enc, tbuf, wire) IN
       /\ wire' = r.wire
       /\ tbuf' = r.tbuf
       /\ enc' = r.enc
    /\ flushed' = written
    /\ UNCHANGED <<imapVars, appVars, handles, ds, topen, plain, written, nwrites, rbuf, dec, out>>

\* A bug variant of finish: the encoder is closed and what it held is lost.
finish_discard(e, tb) == [enc |-> <<>>, tbuf |-> tb \o FinalBlock]

\* The DeflateEncoder's part of a shutdown: it emits what it holds and the
\* final block of the compressed stream to the transport.
finish(e, tb) == [enc |-> <<>>, tbuf |-> tb \o EncodeBlock(e) \o FinalBlock]

\* Write for DeflateStream: poll_shutdown (tokio) / poll_close (async-std),
\* passed to inner.  A first poll finishes the encoder; the poll that
\* completes flushes the transport and shuts it down.
poll_shutdown ==
    /\ \/ /\ ds = "live"
          /\ LET r == finish(enc, tbuf) IN
             /\ enc' = r.enc
             /\ tbuf' = r.tbuf
          /\ ds' = "finishing"
          /\ UNCHANGED <<wire, topen>>
       \/ /\ ds = "finishing"
          /\ wire' = wire \o tbuf
          /\ tbuf' = <<>>
          /\ topen' = FALSE
          /\ ds' = "closed"
          /\ UNCHANGED enc
    /\ UNCHANGED <<imapVars, appVars, handles, plain, written, nwrites, flushed, rbuf, dec, out>>

\* The inner transport sends some of what was written to it.
transport_send ==
    /\ \E k \in 1..Len(tbuf) :
         /\ wire' = wire \o SubSeq(tbuf, 1, k)
         /\ tbuf' = SubSeq(tbuf, k + 1, Len(tbuf))
    /\ UNCHANGED <<imapVars, appVars, handles, ds, topen, plain, written, nwrites, flushed, enc,
                   rbuf, dec, out>>

\* Read for DeflateStream, at the peer: poll_read into a buffer of cap bytes.
\* The BufReader is filled from the transport when it is empty, and the
\* decoder produces from it.
poll_read ==
    /\ \E cap \in 1..MaxRead :
       \E k \in 0..Len(wire) :
         /\ (rbuf = <<>> /\ wire # <<>> /\ dec.mode # "run") <=> k > 0
         /\ LET r == Decode(dec, rbuf \o SubSeq(wire, 1, k), cap) IN
            /\ wire' = SubSeq(wire, k + 1, Len(wire))
            /\ rbuf' = r.rest
            /\ dec' = r.dec
            /\ out' = out \o r.out
            /\ <<wire', rbuf', dec'>> # <<wire, rbuf, dec>>
    /\ UNCHANGED <<imapVars, appVars, handles, ds, topen, plain, written, nwrites, flushed, enc,
                   tbuf>>

\* DeflateStream::into_inner: the wrapper is consumed and the transport is
\* handed to the caller; what the encoder still held goes with the wrapper.
into_inner ==
    /\ ds = "live"
    /\ ds' = "unwrapped"
    /\ handles' = {"caller"}
    /\ enc' = <<>>
    /\ UNCHANGED <<imapVars, appVars, topen, plain, written, nwrites, flushed, tbuf, wire, rbuf,
                   dec, out>>

InitDeflate ==
    /\ stream = <<>>
    /\ pos = 0
    /\ open = TRUE
    /\ request_ids = 0
    /\ pc = "idle"
    /\ fn = "none"
    /\ command_tag = 0
    /\ callStart = 0
    /\ quota = <<>>
    /\ roots = <<>>
    /\ quotas = <<>>
    /\ pending = None
    /\ unsolicited = <<>>
    /\ received = <<>>
    /\ calls = <<>>
    /\ session = "Live"
    /\ stack = <<"T">>
    /\ handles = {"caller"}
    /\ wireOut = <<>>
    /\ readVia = <<>>
    /\ ds = "none"
    /\ topen = TRUE
    /\ plain \in BoundedSeq(Bytes, MaxLen)
    /\ written = 0
    /\ nwrites = 0
    /\ flushed = -1
    /\ enc = <<>>
    /\ tbuf = <<>>
    /\ wire = <<>>
    /\ rbuf = <<>>
    /\ dec = DecIdle
    /\ out = <<>>
    /\ NoApp

NextDeflate ==
    \/ new
    \/ poll_write
    \/ poll_flush
    \/ poll_shutdown
    \/ transport_send
    \/ poll_read
    \/ into_inner

SpecDeflate == InitDeflate /\ [][NextDeflate]_vars

(***************************************************************************)
(* download_attachments (main.rs): the reference application's run over a  *)
(* session.  Every session operation may fail; failed records, for the     *)
(* claims, which of them did.                                              *)
(***************************************************************************)
Seqs == 1..MaxSeq

\* The orders in which a HashSet can be iterated.
Orders(S) ==
    {v \in [1..Cardinality(S) -> S] : \A i, j \in 1..Cardinality(S) : v[i] = v[j] => i = j}

\* A `?` on an Err: the function returns the error to main, which returns it.
Abort(op) ==
    /\ failed' = failed \cup {op}
    /\ outcome' = "Err"
    /\ app' = "returned"

\* An Err that the code does not look at: the run goes on.
Swallow(op) == failed' = failed \cup {op}

\* create_dir_all, connect_imap, list, try_collect and select, each with `?`.
connect_imap ==
    /\ app = "connect"
    /\ \/ /\ app' = "search_from"
          /\ UNCHANGED <<failed, outcome>>
       \/ \E op \in {"connect", "list", "select"} : Abort(op)
    /\ UNCHANGED <<all_sequences, sequences_vec, seq_i, tasks, logged_out>>
    /\ UNCHANGED <<imapVars, handles, defVars>>

\* if let Ok(sequences) = imap_session.search(&from_query).await { extend }
search_from ==
    /\ app = "search_from"
    /\ \/ \E sequences \in SUBSET Seqs :
            /\ all_sequences' = all_sequences \cup sequences
            /\ UNCHANGED failed
       \/ /\ Swallow("search_from")
          /\ UNCHANGED all_sequences
    /\ app' = "search_to"
    /\ UNCHANGED <<sequences_vec, seq_i, tasks, outcome, logged_out>>
    /\ UNCHANGED <<imapVars, handles, defVars>>

\* if let Ok(sequences) = imap_session.search(&to_query).await { extend },
\* and all_sequences.into_iter().collect() up to the first chunk.
search_to ==
    /\ app = "search_to"
    /\ \/ \E sequences \in SUBSET Seqs :
            /\ all_sequences' = all_sequences \cup sequences
            /\ UNCHANGED failed
       \/ /\ Swallow("search_to")
          /\ UNCHANGED all_sequences
    /\ sequences_vec' \in Orders(all_sequences')
    /\ app' = IF all_sequences' = {} THEN "logout" ELSE "fetch"
    /\ UNCHANGED <<seq_i, tasks, outcome, logged_out>>
    /\ UNCHANGED <<imapVars, handles, defVars>>

\* imap_session.fetch(seq_str, "RFC822").await? for the next seq of the chunk.
fetch ==
    /\ app = "fetch"
    /\ \/ /\ app' = "read"
          /\ UNCHANGED <<failed, outcome>>
       \/ Abort("fetch")
    /\ UNCHANGED <<all_sequences, sequences_vec, seq_i, tasks, logged_out>>
    /\ UNCHANGED <<imapVars, handles, defVars>>

\* while let Ok(Some(message)) = messages_stream.try_next().await: one item
\* of the message stream.  r "body": a message with a body; "nobody": one
\* without; "end": Ok(None); "err": Err(_).  Anything but Ok(Some(_)) ends
\* the loop, and the chunk goes on to its next seq or to join_all.
try_next ==
    /\ app = "read"
    /\ \E r \in {"body", "nobody", "end", "err"} :
         /\ r = "body" => tasks < MaxTasks
         /\ tasks' = IF r = "body" THEN tasks + 1 ELSE tasks
         /\ IF r = "err" THEN Swallow("fetch_stream") ELSE UNCHANGED failed
         /\ IF r \in {"body", "nobody"}
            THEN UNCHANGED <<app, seq_i>>
            ELSE /\ seq_i' = seq_i + 1
                 /\ app' = IF seq_i' % batch_size = 0 \/ seq_i' = Len(sequences_vec)
                           THEN "join" ELSE "fetch"
    /\ UNCHANGED <<all_sequences, sequences_vec, outcome, logged_out>>
    /\ UNCHANGED <<imapVars, handles, defVars>>

\* join_all(tasks).await.into_iter().collect::<Result<Vec<_>>>()?: an error
\* of process_message (not of the session) is returned.
join_all ==
    /\ app = "join"
    /\ \/ /\ tasks' = 0
          /\ app' = IF seq_i = Len(sequences_vec) THEN "logout" ELSE "fetch"
          /\ UNCHANGED outcome
       \/ /\ tasks > 0
          /\ outcome' = "Err"
          /\ app' = "returned"
          /\ UNCHANGED tasks
    /\ UNCHANGED <<all_sequences, sequences_vec, seq_i, failed, logged_out>>
    /\ UNCHANGED <<imapVars, handles, defVars>>

\* imap_session.logout().await?; Ok(())
logout ==
    /\ app = "logout"
    /\ \/ /\ logged_out' = TRUE
          /\ outcome' = "Ok"
          /\ app' = "returned"
          /\ UNCHANGED failed
       \/ /\ Abort("logout")
          /\ UNCHANGED logged_out
    /\ UNCHANGED <<all_sequences, sequences_vec, seq_i, tasks>>
    /\ UNCHANGED <<imapVars, handles, defVars>>

InitMain ==
    /\ stream = <<>>
    /\ pos = 0
    /\ open = TRUE
    /\ request_ids = 0
    /\ pc = "idle"
    /\ fn = "none"
    /\ command_tag = 0
    /\ callStart = 0
    /\ quota = <<>>
    /\ roots = <<>>
    /\ quotas = <<>>
    /\ pending = None
    /\ unsolicited = <<>>
    /\ received = <<>>
    /\ calls = <<>>
    /\ session = "Live"
    /\ stack = <<"ImapStream", "T">>
    /\ handles = {"conn"}
    /\ wireOut = <<>>
    /\ readVia = <<>>
    /\ NoDeflateStream
    /\ app = "connect"
    /\ all_sequences = {}
    /\ sequences_vec = <<>>
    /\ seq_i = 0
    /\ tasks = 0
    /\ failed = {}
    /\ outcome = "none"
    /\ logged_out = FALSE

NextMain ==
    \/ connect_imap
    \/ search_from
    \/ search_to
    \/ fetch
    \/ try_next
    \/ join_all
    \/ logout

SpecMain == InitMain /\ [][NextMain]_vars

Init ==
    /\ stream = <<>>
    /\ pos = 0
    /\ open = TRUE
    /\ request_ids = 0
    /\ pc = "idle"
    /\ fn = "none"
    /\ command_tag = 0
    /\ callStart = 0
    /\ quota = <<>>
    /\ roots = <<>>
    /\ quotas = <<>>
    /\ pending = None
    /\ unsolicited = <<>>
    /\ received = <<>>
    /\ calls = <<>>
    /\ session = "Live"
    /\ stack = <<"ImapStream", "T">>
    /\ handles = {"conn"}
    /\ wireOut = <<>>
    /\ readVia = <<>>
    /\ NoDeflateStream
    /\ NoApp

Next ==
    \/ get_quota
    \/ get_quota_root
    \/ parse_get_quota
    \/ parse_get_quota_root
    \/ await_handle_unilateral
    \/ Receive

Spec == Init /\ [][Next]_vars

NextCompress ==
    \/ compress_begin
    \/ compress
    \/ get_quota
    \/ parse_get_quota
    \/ await_handle_unilateral
    \/ Receive

SpecCompress == Init /\ [][NextCompress]_vars

(***************************************************************************)
(* A session whose server has already sent its frames: some non-matching   *)
(* frames, then the completion of the first command, then nothing.  The    *)
(* collector's steps are weakly fair (the task is polled while it can      *)
(* progress); nothing obliges the application to receive.                  *)
(***************************************************************************)
NonMatching == OtherFrames \cup {DoneFrame(1, "Ok")}

InitLive ==
    /\ \E n \in 0..(MaxFrames - 1) : \E body \in [1..n -> NonMatching] :
         stream = body \o <<DoneFrame(0, "Ok")>>
    /\ pos = 0
    /\ open = FALSE
    /\ request_ids = 0
    /\ pc = "idle"
    /\ fn = "none"
    /\ command_tag = 0
    /\ callStart = 0
    /\ quota = <<>>
    /\ roots = <<>>
    /\ quotas = <<>>
    /\ pending = None
    /\ unsolicited = <<>>
    /\ received = <<>>
    /\ calls = <<>>
    /\ session = "Live"
    /\ stack = <<"ImapStream", "T">>
    /\ handles = {"conn"}
    /\ wireOut = <<>>
    /\ readVia = <<>>
    /\ NoDeflateStream
    /\ NoApp

Collector == parse_get_quota \/ parse_get_quota_root \/ await_handle_unilateral

SpecLive == InitLive /\ [][Next]_vars /\ WF_vars(Collector)

(***************************************************************************)
(* Claims.                                                                 *)
(***************************************************************************)
Returned == {calls[k] : k \in 1..Len(calls)}
Segment(c) == (c.start + 1)..c.stop
Forwarded == received \o unsolicited

\* C1: a collection for tag T that is ended by a completion frame has
\* consumed exactly the frames up to and including the first completion
\* frame of T: it stops on a Done frame carrying T, no earlier frame it
\* consumed was that completion, a Done frame of another tag did not end it,
\* it returns once, and the frames after the completion are left to the
\* next collection.
C1_StopsAtCompletion ==
    /\ \A c \in Returned :
         /\ \A i \in Segment(c) : IsDoneOf(stream[i], c.tag) => i = c.stop
         /\ c.cause = "done" =>
              /\ c.stop > c.start
              /\ IsDoneOf(stream[c.stop], c.tag)
    /\ pc # "idle" => \A i \in (callStart + 1)..pos : ~IsDoneOf(stream[i], command_tag)
    /\ \A k \in 1..(Len(calls) - 1) : calls[k + 1].start = calls[k].stop
    /\ Len(calls) + (IF pc = "idle" THEN 0 ELSE 1) = request_ids

C1_Witness ==
    \E c \in Returned :
      /\ c.cause = "done"
      /\ \E i \in Segment(c) : stream[i].kind = "Done" /\ stream[i].tag # c.tag
      /\ pos > c.stop

\* C2 (as claimed): a collection whose frame source ended before the
\* completion frame of its tag returns an error.
C2_EofIsError ==
    \A c \in Returned : c.cause = "eof" => c.status = "Err"

\* C3: parse_get_quota ended by the completion frame of its tag fails with
\* ExpectedResponseNotFound and no Quota when it read no Quota frame, and
\* succeeds when it read at least one.
C3_MissingQuota ==
    \A c \in Returned :
      (c.fn = "get_quota" /\ c.cause = "done") =>
        IF \E i \in Segment(c) : stream[i].kind = "Quota"
        THEN c.status = "Ok" /\ c.quota # <<>>
        ELSE c.status = "Err" /\ c.error = "ExpectedResponseNotFound" /\ c.quota = <<>>

C3_Witness ==
    \E c \in Returned :
      /\ c.fn = "get_quota" /\ c.cause = "done"
      /\ c.stop > c.start + 1
      /\ \A i \in Segment(c) : stream[i].kind # "Quota"
      /\ c.error = "ExpectedResponseNotFound"

\* C4: parse_get_quota_root ended by the completion frame of its tag,
\* having read no QuotaRoot and no Quota frame, succeeds with two empty
\* sequences.
C4_EmptyRootsOk ==
    \A c \in Returned :
      (/\ c.fn = "get_quota_root"
       /\ c.cause = "done"
       /\ \A i \in Segment(c) : stream[i].kind \notin {"Quota", "QuotaRoot"}) =>
        c.status = "Ok" /\ c.roots = <<>> /\ c.quotas = <<>>

C4_Witness ==
    \E c \in Returned :
      /\ c.fn = "get_quota_root" /\ c.cause = "done"
      /\ c.status = "Ok" /\ c.roots = <<>> /\ c.quotas = <<>>
      /\ c.stop > c.start + 1

\* C5: the frames forwarded to the unsolicited channel are in the channel
\* (those already received first) in the order in which they were read from
\* the frame source, so a frame forwarded by an earlier collection precedes
\* every frame forwarded by a later one.
C5_ForwardOrder ==
    /\ \A i \in 1..Len(Forwarded) :
         /\ Forwarded[i].idx \in 1..pos
         /\ Forwarded[i].frame = stream[Forwarded[i].idx]
    /\ \A i, j \in 1..Len(Forwarded) : i < j => Forwarded[i].idx < Forwarded[j].idx

C5_Witness ==
    /\ Len(calls) >= 1
    /\ \E i, j, k \in 1..Len(Forwarded) :
         /\ i < j /\ j < k
         /\ Forwarded[j].idx <= calls[1].stop
         /\ Forwarded[k].idx > calls[1].stop
    /\ received # <<>>

Transport == IF Coding(stack) = "deflate" THEN "Compressed" ELSE "Uncompressed"
Compressions == {c \in Returned : c.fn = "compress"}

\* C7: when the COMPRESS DEFLATE command completes without success, or the
\* handshake meets an I/O or parse error, compress returns an error, no
\* DeflateStream is built around the transport, no new session is produced
\* and the session moved into the call is gone.
C7_FailedHandshake ==
    \A c \in Compressions :
      /\ (\/ c.cause = "error"
          \/ (c.cause = "done" /\ stream[c.stop].status # "Ok")) => c.status = "Err"
      /\ c.status = "Err" =>
           /\ session = "Dropped"
           /\ Coding(stack) = "plain"
           /\ "deflate" \notin handles
           /\ pc = "idle"

C7_Witness ==
    \E c \in Compressions :
      /\ c.cause = "done"
      /\ stream[c.stop].status = "No"
      /\ c.stop > c.start + 1
      /\ session = "Dropped"

C8_Coded ==
    /\ \A k \in 1..Len(wireOut) :
         wireOut[k].by = "session" =>
           (wireOut[k].coding = "deflate"
              <=> \E j \in 1..(k - 1) :
                    wireOut[j].by = "session" /\ wireOut[j].text = "compress")
    /\ \A i \in 1..pos :
         readVia[i] = "deflate"
           <=> \E c \in Compressions : c.status = "Ok" /\ c.stop < i
    /\ Transport = "Compressed" <=> \E c \in Compressions : c.status = "Ok"

C8_Step ==
    /\ Transport = "Compressed" => Transport' = "Compressed"
    /\ Transport' # Transport =>
         /\ fn = "compress"
         /\ pos' = pos + 1
         /\ IsDoneOf(stream'[pos'], command_tag)
         /\ stream'[pos'].status = "Ok"
         /\ readVia'[pos'] = "plain"

C9_OnlyWrapperWrites ==
    Transport = "Compressed" =>
      \A k \in 1..Len(wireOut) :
        wireOut[k].coding = "plain" =>
          \E j \in k..Len(wireOut) : wireOut[j].text = "compress"

\* C9 (amended): once a DeflateStream has replaced the raw transport, the
\* wrapper is the only owner of the transport (compress keeps no handle to
\* it), and whatever reaches the inner transport without passing the
\* wrapper's write path was written through the wrapper's accessor get_mut
\* by the code holding the wrapper.
C9_OwnedByWrapper ==
    Transport = "Compressed" =>
      /\ handles = {"deflate"}
      /\ \A k \in 1..Len(wireOut) :
           \/ wireOut[k].by = "session"
                /\ (wireOut[k].coding = "plain" =>
                      \E j \in k..Len(wireOut) : wireOut[j].text = "compress")
           \/ wireOut[k].by = "f" /\ wireOut[k].text = "get_mut"

C9_Witness ==
    /\ Transport = "Compressed"
    /\ \E k \in 1..Len(wireOut) : wireOut[k].by = "f"
    /\ \E k \in 1..Len(wireOut) : wireOut[k].coding = "deflate"

\* C10: whatever plaintext is written through one DeflateStream, in any
\* series of writes, what the peer has read through its DeflateStream is
\* always a prefix of it, the peer's decoder never meets malformed data,
\* and once a flush has covered all of it and the peer has read all there is
\* to read, the peer has read exactly that plaintext.
C10_RoundTrip ==
    /\ dec.mode # "err"
    /\ IsPrefix(out, SubSeq(plain, 1, written))
    /\ (/\ written = Len(plain)
        /\ flushed = written
        /\ wire = <<>>
        /\ rbuf = <<>>
        /\ dec.mode # "run") => out = plain

C10_Witness ==
    /\ Len(plain) = MaxLen
    /\ \E i \in 1..Len(plain) : plain[i] # plain[1]
    /\ nwrites >= 2
    /\ flushed = Len(plain)
    /\ wire = <<>>
    /\ rbuf = <<>>
    /\ out = plain

\* What the peer can still read from what has reached it or is on the wire,
\* with no further input from the writer.
Readable == Decode(dec, rbuf \o wire, Len(plain) + 1).out

\* C11: once a flush has completed, the encoder holds none of the bytes
\* accepted before it and the transport holds nothing unsent, and the peer
\* can read every one of those bytes from what is already on the wire.
C11_FlushBoundary ==
    /\ flushed >= 0 => IsPrefix(SubSeq(plain, 1, flushed), out \o Readable)
    /\ (flushed = written /\ ds = "live") => enc = <<>> /\ tbuf = <<>>

C11_Witness ==
    /\ flushed = written
    /\ written >= 2
    /\ nwrites >= 2
    /\ out = <<>>
    /\ Readable = SubSeq(plain, 1, written)
    /\ \E i \in 1..written : plain[i] # plain[1]

Issued == Cardinality({k \in 1..Len(wireOut) : wireOut[k].by = "session"})

C12_Sequential ==
    /\ \A k \in 1..(Len(calls) - 1) : calls[k].stop <= calls[k + 1].start
    /\ pc # "idle" => \A c \in Returned : c.stop <= callStart
    /\ Issued - Len(calls) = (IF pc = "idle" THEN 0 ELSE 1)

C12_Step ==
    pc # "idle" =>
      /\ command_tag' = command_tag
      /\ callStart' = callStart
      /\ fn' \in {fn, "none"}
      /\ wireOut' = wireOut \/ fn = "compress"

\* C12: at most one collection (a quota collection or the compress
\* handshake) drains the session's frame stream at a time: while one is
\* running no command is issued and none is entered, every command issued
\* but the running one has returned, and the frames consumed by successive
\* collections do not interleave.
C12_OneCollector == []C12_Sequential /\ [][C12_Step]_vars

C12_Witness ==
    /\ Len(calls) >= 1
    /\ calls[1].fn = "compress"
    /\ calls[1].stop > calls[1].start + 1
    /\ pc = "loop"
    /\ pos > callStart

\* C13: a collection that reads an I/O or parse error returns at once with
\* that error and without a result; the error is not forwarded, not taken
\* for the completion frame or the end of the source, and nothing is
\* consumed after it.
C13_ErrorPropagates ==
    /\ \A c \in Returned :
         /\ c.cause = "error" =>
              /\ c.status = "Err" /\ c.error = "Io"
              /\ c.quota = <<>> /\ c.roots = <<>> /\ c.quotas = <<>>
              /\ stream[c.stop].kind = "IoErr"
         /\ \A i \in Segment(c) :
              stream[i].kind = "IoErr" => (i = c.stop /\ c.cause = "error")
    /\ pc # "idle" => \A i \in (callStart + 1)..pos : stream[i].kind # "IoErr"
    /\ \A k \in 1..Len(Forwarded) : Forwarded[k].frame.kind # "IoErr"

C13_Witness ==
    \E c \in Returned :
      /\ c.cause = "error"
      /\ c.fn = "get_quota_root"
      /\ \E i \in Segment(c) : stream[i].kind = "Quota"
      /\ \E i \in Segment(c) : stream[i].kind = "Other"

\* The collection that consumed item i of the stream: its function and tag.
FnAt(i) ==
    IF \E c \in Returned : i \in Segment(c)
    THEN (CHOOSE c \in Returned : i \in Segment(c)).fn
    ELSE fn
TagAt(i) ==
    IF \E c \in Returned : i \in Segment(c)
    THEN (CHOOSE c \in Returned : i \in Segment(c)).tag
    ELSE command_tag
Matches(f, item) ==
    \/ f = "get_quota" /\ item.kind = "Quota"
    \/ f = "get_quota_root" /\ item.kind \in {"Quota", "QuotaRoot"}
FwdCount(i) == Cardinality({k \in 1..Len(Forwarded) : Forwarded[k].idx = i})
\* How many frames a collection has accumulated.
Accumulated(f, q, rs, qs) ==
    IF f = "get_quota" THEN Len(q) ELSE Len(rs) + Len(qs)
MatchCount(f, lo, hi) == Cardinality({i \in lo..hi : Matches(f, stream[i])})

\* C14: every frame a collection consumes goes to one place.  A frame of the
\* extension's payload shape is accumulated and not forwarded, the
\* completion frame of the tag (and an error item) goes nowhere, and every
\* other frame is forwarded to the unsolicited channel once, as soon as
\* handle_unilateral has run, and is not accumulated.
C14_OneDestination ==
    /\ \A i \in 1..pos :
         FwdCount(i) =
           IF \/ Matches(FnAt(i), stream[i])
              \/ IsDoneOf(stream[i], TagAt(i))
              \/ stream[i].kind = "IoErr"
              \/ (pc = "send" /\ i = pos)
           THEN 0 ELSE 1
    /\ \A c \in Returned :
         c.status = "Ok" =>
           IF c.fn = "get_quota"
           THEN MatchCount(c.fn, c.start + 1, c.stop) >= 1
           ELSE Accumulated(c.fn, c.quota, c.roots, c.quotas)
                  = MatchCount(c.fn, c.start + 1, c.stop)
    /\ pc # "idle" =>
         IF fn = "get_quota"
         THEN (quota # <<>>) <=> (MatchCount(fn, callStart + 1, pos) >= 1)
         ELSE Accumulated(fn, quota, roots, quotas) = MatchCount(fn, callStart + 1, pos)

C14_Witness ==
    \E c \in Returned :
      /\ c.fn = "get_quota_root" /\ c.cause = "done"
      /\ \E i \in Segment(c) : stream[i].kind = "Quota" /\ FwdCount(i) = 0
      /\ \E i \in Segment(c) : stream[i].kind = "Other" /\ FwdCount(i) = 1
      /\ FwdCount(c.stop) = 0

\* The values built from the frames of one kind among items lo..hi, in order.
RECURSIVE Built(_, _, _)
Built(kind, lo, hi) ==
    IF hi < lo THEN <<>>
    ELSE Built(kind, lo, hi - 1)
           \o (IF stream[hi].kind = kind
               THEN <<[name |-> stream[hi].name, usage |-> stream[hi].usage,
                       limit |-> stream[hi].limit]>>
               ELSE <<>>)

\* C15: parse_get_quota ended by the completion frame of its tag, having
\* read one or more Quota frames, returns the Quota of the last of them,
\* with that frame's name, usage and limit.
C15_KeepLast ==
    \A c \in Returned :
      (/\ c.fn = "get_quota"
       /\ c.cause = "done"
       /\ Built("Quota", c.start + 1, c.stop) # <<>>) =>
        LET b == Built("Quota", c.start + 1, c.stop) IN
        c.status = "Ok" /\ c.quota = <<b[Len(b)]>>

C15_Witness ==
    \E c \in Returned :
      /\ c.fn = "get_quota" /\ c.cause = "done"
      /\ LET b == Built("Quota", c.start + 1, c.stop) IN
         /\ Len(b) >= 2
         /\ b[1] # b[Len(b)]
         /\ c.quota = <<b[Len(b)]>>
         /\ c.quota[1].name = "MESSAGE" /\ c.quota[1].usage = 3 /\ c.quota[1].limit = 50
      /\ \E i \in Segment(c) : stream[i].kind = "Other"

LastRestart ==
    LET S == {k \in 1..Len(calls) : calls[k].fn = "compress" /\ calls[k].status = "Ok"}
    IN IF S = {} THEN 0 ELSE CHOOSE k \in S : \A l \in S : l <= k

C17_Tags ==
    /\ request_ids = Issued - LastRestart
    /\ Issued - Len(calls) \in {0, 1}
    /\ pc # "idle" => command_tag = request_ids - 1
    /\ \A k \in 1..Len(calls) :
         calls[k].cause = "done" =>
           /\ stream[calls[k].stop].tag = calls[k].tag
           /\ \A l \in 1..Len(calls) :
                (l # k /\ calls[l].tag = calls[k].tag) =>
                  (l <= LastRestart) # (k <= LastRestart)

C17_Step ==
    request_ids' # request_ids =>
      \/ pc = "idle" /\ pc' = "loop" /\ request_ids' = request_ids + 1
      \/ /\ fn = "compress"
         /\ Transport' # Transport
         /\ pc' = "idle"
         /\ Issued' = Len(calls')
         /\ request_ids' = 0

\* C17: a successful compress restarts the tags at the initial value, in
\* the step in which it returns, when every command issued on the session
\* has returned; at most one command is outstanding at a time, a completion
\* frame that ends a collection carries the tag of that collection, and two
\* commands have the same tag only if one was issued before the restart and
\* the other after it.
C17_TagRestart == []C17_Tags /\ [][C17_Step]_vars

C17_Witness ==
    /\ Len(calls) = 2
    /\ calls[1].fn = "compress" /\ calls[1].status = "Ok"
    /\ calls[2].fn = "get_quota" /\ calls[2].cause = "done"
    /\ calls[2].tag = calls[1].tag
    /\ calls[2].stop > calls[2].start + 1

C19_Kept ==
    /\ \A k \in 1..(Len(Forwarded) - 1) : Forwarded[k].idx < Forwarded[k + 1].idx
    /\ \A i \in 1..pos :
         (stream[i].kind = "Other" /\ ~(pc = "send" /\ i = pos)) =>
           \E k \in 1..Len(Forwarded) :
             Forwarded[k].idx = i /\ Forwarded[k].frame = stream[i]

C19_Step ==
    Transport' # Transport => (unsolicited' = unsolicited /\ received' = received)

\* C19: a successful compress leaves the unsolicited channel as it is: the
\* step that builds the new session changes neither what the channel holds
\* nor what has been received, so every frame forwarded before or during
\* the handshake is received or still waiting in the channel, in the order
\* of arrival, after the session has been rebuilt.
C19_ChannelKept == []C19_Kept /\ [][C19_Step]_vars

C19_Witness ==
    /\ Transport = "Compressed"
    /\ Len(calls) = 2
    /\ calls[2].fn = "compress"
    /\ Len(unsolicited) >= 2
    /\ unsolicited[1].idx < calls[2].start
    /\ unsolicited[2].idx > calls[2].start
    /\ unsolicited[2].idx < calls[2].stop

\* C18: a shutdown (poll_shutdown, poll_close) of a DeflateStream first
\* brings what the compressor holds, and the end of the compressed stream,
\* to the inner transport and only then shuts the transport down: the
\* transport is shut only by a completed shutdown, a completed shutdown
\* leaves the transport shut with nothing held back in the compressor or
\* the transport, and every byte accepted by a write before the shutdown
\* can be read by the peer, followed by the end of the stream.
C18_ShutdownOrder ==
    /\ ~topen <=> ds = "closed"
    /\ ds = "closed" =>
         /\ enc = <<>> /\ tbuf = <<>>
         /\ out \o Readable = SubSeq(plain, 1, written)
         /\ Decode(dec, rbuf \o wire, Len(plain) + 1).dec.mode = "end"

C18_Witness ==
    /\ ds = "closed"
    /\ flushed < written
    /\ nwrites >= 2
    /\ written >= 2
    /\ \E i \in 1..written : plain[i] # plain[1]
    /\ out = SubSeq(plain, 1, written)
    /\ dec.mode = "end"

\* C20: in download_attachments an error of a session operation (a failed
\* FROM or TO search, an error while the message stream of a fetch is read,
\* as any other) is reported and aborts the run: the function does not
\* return success, and does not log out, after one of them has failed.
C20_ErrorsAbort == (outcome = "Ok" \/ logged_out) => failed = {}

====
